---------------------------- MODULE Spec2Model ----------------------------
(***************************************************************************)
(* The batch pipeline of src/utils.py: process_pdf_files with its helpers  *)
(* extract_text_from_pdf, apply_regex_pattern and highlight_matches_in_pdf. *)
(*                                                                         *)
(* One action is one iteration of the loop over uploaded_files (lines      *)
(* 81-146); Finish is the packaging after the loop (lines 148-166).  The   *)
(* batch is drawn one file per iteration, so uploaded_files holds the      *)
(* prefix of the batch the loop has consumed.                              *)
(*                                                                         *)
(* Strings are sequences of characters.  The bytes of a PDF are modelled   *)
(* by what the PDF library makes of them: whether they open, and per page  *)
(* the text layer or a failure to extract it.                              *)
(***************************************************************************)
EXTENDS Integers, Sequences, FiniteSets, TLC

VARIABLES
    regex_pattern,           \* parameter of process_pdf_files (utils.py:62)
    create_highlighted_pdfs, \* parameter of process_pdf_files (utils.py:62)
    uploaded_files,          \* the files the loop has consumed, in order (utils.py:81)
    results,                 \* list of rows (utils.py:74)
    highlighted_pdfs,        \* dict output name -> bytes, insertion ordered (utils.py:75)
    diags,                   \* per iteration, the st.warning / st.error calls it made
    read_failed,             \* per iteration: did reading the upload raise (utils.py:104-105)
    open_handles,            \* documents opened (utils.py:26, 184) and not closed (36, 217)
    row_owner,               \* history: the iteration that appended each row (utils.py:134)
    stored,                  \* history: every assignment of utils.py:142
    pc,                      \* "loop", "done", or "raised" (an exception left the call)
    ret_table,               \* first component of the returned tuple (utils.py:161-166)
    ret_zip                  \* second component: <<>> is None, <<z>> is the ZIP z

vars == <<regex_pattern, create_highlighted_pdfs, uploaded_files, results,
          highlighted_pdfs, diags, read_failed, open_handles, row_owner, stored,
          pc, ret_table, ret_zip>>

---------------------------------------------------------------------------
(* Bounds and program constants *)

MaxFiles == 2

\* 200 * 1024 * 1024
MaxFileSize == 209715200

---------------------------------------------------------------------------
(* Strings *)

LowerChar(c) ==
    CASE c = "A" -> "a"
      [] c = "B" -> "b"
      [] c = "P" -> "p"
      [] c = "D" -> "d"
      [] c = "F" -> "f"
      [] OTHER -> c

Lower(s) == [k \in 1..Len(s) |-> LowerChar(s[k])]

EndsWith(s, suffix) ==
    /\ Len(s) >= Len(suffix)
    /\ SubSeq(s, Len(s) - Len(suffix) + 1, Len(s)) = suffix

DotPdf == <<".", "p", "d", "f">>

HighlightedSuffix == <<"_highlighted", ".", "p", "d", "f">>

\* os.path.splitext: split at the last dot, unless only dots precede it
LastDot(s) ==
    LET dots == {k \in 1..Len(s) : s[k] = "."}
    IN  IF dots = {} THEN 0 ELSE CHOOSE k \in dots : \A l \in dots : l <= k

SplitExt(s) ==
    LET d == LastDot(s)
    IN  IF d > 0 /\ \E k \in 1..(d - 1) : s[k] # "."
        THEN <<SubSeq(s, 1, d - 1), SubSeq(s, d, Len(s))>>
        ELSE <<s, <<>>>>

\* " ".join(parts)
RECURSIVE Join(_)
Join(parts) ==
    IF parts = <<>> THEN <<>>
    ELSE IF Len(parts) = 1 THEN parts[1]
    ELSE parts[1] \o <<" ">> \o Join(Tail(parts))

RECURSIVE Concat(_)
Concat(seqs) ==
    IF seqs = <<>> THEN <<>> ELSE Head(seqs) \o Concat(Tail(seqs))

NonEmpty(s) == s # <<>>

---------------------------------------------------------------------------
(* Inputs *)

\* A page as the PDF library sees it: its text layer, or ok = FALSE when
\* reading the page raises.
TextPage(t) == [ok |-> TRUE, text |-> t]
CorruptPage == [ok |-> FALSE, text |-> <<>>]

Doc(ps) == [parseable |-> TRUE, pages |-> ps]
Unparseable == [parseable |-> FALSE, pages |-> <<>>]

\* Two pages with matches around a page without text
Matching == Doc(<<TextPage(<<"a", "A">>), TextPage(<<>>), TextPage(<<"A", "b">>)>>)

Documents ==
    { Unparseable,
      Doc(<<TextPage(<<>>)>>),
      Doc(<<TextPage(<<"b">>)>>),
      Matching,
      Doc(<<TextPage(<<"a", "b">>), CorruptPage>>) }

\* The bytes of a file: the document they encode, the highlight annotations
\* in it, and whether they were written by the library (pdf_document.write).
Bytes(doc, n, w) == [doc |-> doc, annots |-> n, written |-> w]

PdfNames ==
    { <<"a", ".", "p", "d", "f">>,
      <<"a", ".", "P", "D", "F">>,
      <<"b", ".", "p", "d", "f">> }

OtherNames == { <<"a", ".", "t", "x", "t">> }

\* Files within the size limit (at it: the comparison is strict), and files
\* one byte over it
Files ==
    [name : PdfNames, size : {MaxFileSize},
     bytes : {Bytes(d, 0, FALSE) : d \in Documents}]
    \cup
    [name : OtherNames, size : {MaxFileSize},
     bytes : {Bytes(Unparseable, 0, FALSE), Bytes(Matching, 0, FALSE)}]
    \cup
    [name : {<<"a", ".", "p", "d", "f">>} \cup OtherNames, size : {MaxFileSize + 1},
     bytes : {Bytes(Matching, 0, FALSE)}]

\* A pattern: `head` followed, when tail is a character, by that character
\* optionally; with groups it is (head)(tail)?  A pattern that does not
\* compile makes the re functions raise re.error.
Patterns ==
    { [compiles |-> FALSE, head |-> "(", tail |-> "", groups |-> FALSE],
      [compiles |-> TRUE, head |-> "a", tail |-> "", groups |-> FALSE],
      [compiles |-> TRUE, head |-> "a", tail |-> "b", groups |-> TRUE] }

\* Where the highlighter's own work can fail for reasons outside the model
HighlightFaults == {"none", "open", "extract", "search", "annotate", "write"}

---------------------------------------------------------------------------
(* Diagnostics *)

Warning(m) == [level |-> "warning", msg |-> m]
Error(m) == [level |-> "error", msg |-> m]

---------------------------------------------------------------------------
(* The regex library: a left-to-right, non-overlapping scan with           *)
(* re.IGNORECASE                                                           *)

RECURSIVE Scan(_, _, _)
Scan(p, text, pos) ==
    IF pos > Len(text) THEN <<>>
    ELSE IF LowerChar(text[pos]) = p.head
    THEN LET two == /\ p.tail # ""
                    /\ pos + 1 <= Len(text)
                    /\ LowerChar(text[pos + 1]) = p.tail
             stop == IF two THEN pos + 1 ELSE pos
         IN  <<[start |-> pos, stop |-> stop]>> \o Scan(p, text, stop + 1)
    ELSE Scan(p, text, pos + 1)

\* One element of re.findall's list: a tuple of group values when the
\* pattern has several groups, the matched string otherwise
FindallItem(p, text, m) ==
    IF p.groups
    THEN [tuple |-> TRUE,
          items |-> <<SubSeq(text, m.start, m.start),
                      SubSeq(text, m.start + 1, m.stop)>>]
    ELSE [tuple |-> FALSE, items |-> <<SubSeq(text, m.start, m.stop)>>]

ReFindall(p, text) ==
    IF ~p.compiles THEN [exc |-> "re.error", matches |-> <<>>]
    ELSE LET ms == Scan(p, text, 1)
         IN  [exc |-> "none",
              matches |-> [k \in 1..Len(ms) |-> FindallItem(p, text, ms[k])]]

\* re.finditer, each match reduced to match.group()
ReFinditer(p, text) ==
    IF ~p.compiles THEN [exc |-> "re.error", matches |-> <<>>]
    ELSE LET ms == Scan(p, text, 1)
         IN  [exc |-> "none",
              matches |-> [k \in 1..Len(ms) |-> SubSeq(text, ms[k].start, ms[k].stop)]]

\* TextPage.search: the positions where the needle occurs, case ignored
SearchHits(text, needle) ==
    Cardinality({k \in 1..(Len(text) - Len(needle) + 1) :
                    Lower(SubSeq(text, k, k + Len(needle) - 1)) = Lower(needle)})

---------------------------------------------------------------------------
(* extract_text_from_pdf *)

PageTextPairs(doc) ==
    LET keep == {k \in 1..Len(doc.pages) : NonEmpty(doc.pages[k].text)}
        RECURSIVE Pairs(_)
        Pairs(k) ==
            IF k > Len(doc.pages) THEN <<>>
            ELSE (IF k \in keep THEN <<<<k, doc.pages[k].text>>>> ELSE <<>>)
                 \o Pairs(k + 1)
    IN  Pairs(1)

ExtractError == Error("Error extracting text from PDF")

\* Variant: the except branch returns {} without reporting
extract_text_from_pdf_Silent(bytes) ==
    IF ~bytes.doc.parseable
    THEN [page_texts |-> <<>>, diags |-> <<>>, leaked |-> 0]
    ELSE IF \E k \in 1..Len(bytes.doc.pages) : ~bytes.doc.pages[k].ok
    THEN [page_texts |-> <<>>, diags |-> <<>>, leaked |-> 1]
    ELSE [page_texts |-> PageTextPairs(bytes.doc), diags |-> <<>>, leaked |-> 0]

extract_text_from_pdf(bytes) ==
    LET doc == bytes.doc
    IN  IF ~doc.parseable
        THEN [page_texts |-> <<>>, diags |-> <<ExtractError>>, leaked |-> 0]
        ELSE IF \E k \in 1..Len(doc.pages) : ~doc.pages[k].ok
        THEN [page_texts |-> <<>>, diags |-> <<ExtractError>>, leaked |-> 1]
        ELSE [page_texts |-> PageTextPairs(doc), diags |-> <<>>, leaked |-> 0]

---------------------------------------------------------------------------
(* apply_regex_pattern *)

RegexError == Error("Invalid regex pattern")

\* Variant: re.error is not caught
apply_regex_pattern_NoCatch(text, pattern) ==
    [exc |-> ReFindall(pattern, text).exc,
     matches |-> ReFindall(pattern, text).matches,
     diags |-> <<>>]

apply_regex_pattern(text, pattern) ==
    LET r == ReFindall(pattern, text)
    IN  IF r.exc = "re.error"
        THEN [exc |-> "none", matches |-> <<>>, diags |-> <<RegexError>>]
        ELSE [exc |-> r.exc, matches |-> r.matches, diags |-> <<>>]

---------------------------------------------------------------------------
(* highlight_matches_in_pdf *)

RECURSIVE Sum(_)
Sum(ns) == IF ns = <<>> THEN 0 ELSE Head(ns) + Sum(Tail(ns))

\* The highlight annotations one page receives: one per search hit of each
\* match of the page
PageAnnots(page_text, pattern) ==
    LET ms == ReFinditer(pattern, page_text).matches
    IN  Sum([k \in 1..Len(ms) |-> SearchHits(page_text, ms[k])])

HighlightError == Error("Error highlighting matches")

highlight_matches_in_pdf(pdf_bytes, pattern, fault) ==
    LET doc == pdf_bytes.doc
        n == Sum([k \in 1..Len(doc.pages) |-> PageAnnots(doc.pages[k].text, pattern)])
    IN  IF fault = "open" \/ ~doc.parseable
        THEN \* pymupdf.open raised: nothing was opened
             [bytes |-> pdf_bytes, diags |-> <<HighlightError>>, leaked |-> 0]
        ELSE IF \/ fault # "none"
                \/ \E k \in 1..Len(doc.pages) : ~doc.pages[k].ok
                \/ (Len(doc.pages) > 0 /\ ~pattern.compiles)
        THEN \* raised between open and close: line 217 is not reached
             [bytes |-> pdf_bytes, diags |-> <<HighlightError>>, leaked |-> 1]
        ELSE [bytes |-> Bytes(doc, pdf_bytes.annots + n, TRUE),
              diags |-> <<>>, leaked |-> 0]

---------------------------------------------------------------------------
(* process_pdf_files: one iteration of the loop *)

\* Variant: the size check is missing
Validate_NoSizeCheck(f) ==
    IF ~EndsWith(Lower(f.name), DotPdf) THEN "not_pdf" ELSE "ok"

Validate(f) ==
    IF ~EndsWith(Lower(f.name), DotPdf) THEN "not_pdf"
    ELSE IF f.size > MaxFileSize THEN "too_large"
    ELSE "ok"

\* lines 129-132
match_str(match) ==
    IF match.tuple THEN Join(SelectSeq(match.items, NonEmpty))
    ELSE match.items[1]

\* Variant: the count restarts on every page
PageRows_RestartPerPage(matches, document_name, page_num, tag_count) ==
    [k \in 1..Len(matches) |->
        <<k, document_name, page_num,
          IF matches[k].tuple THEN Join(SelectSeq(matches[k].items, NonEmpty))
          ELSE matches[k].items[1]>>]

\* lines 126-136: the rows of one page, numbered from tag_count
PageRows(matches, document_name, page_num, tag_count) ==
    [k \in 1..Len(matches) |->
        <<tag_count + k - 1, document_name, page_num, match_str(matches[k])>>]

\* lines 121-136
RECURSIVE MatchPages(_, _, _, _, _)
MatchPages(page_texts, pattern, document_name, tag_count, has_matches) ==
    IF page_texts = <<>>
    THEN [exc |-> "none", rows |-> <<>>, diags |-> <<>>, has_matches |-> has_matches]
    ELSE LET page_num == Head(page_texts)[1]
             page_text == Head(page_texts)[2]
             r == apply_regex_pattern(page_text, pattern)
         IN  IF r.exc # "none"
             THEN [exc |-> r.exc, rows |-> <<>>, diags |-> r.diags,
                   has_matches |-> has_matches]
             ELSE LET rest == MatchPages(Tail(page_texts), pattern, document_name,
                                         tag_count + Len(r.matches),
                                         has_matches \/ r.matches # <<>>)
                  IN  [exc |-> rest.exc,
                       rows |-> PageRows(r.matches, document_name, page_num, tag_count)
                                \o rest.rows,
                       diags |-> r.diags \o rest.diags,
                       has_matches |-> rest.has_matches]

\* line 142: the key of a document in highlighted_pdfs
OutputName(name) == SplitExt(name)[1] \o HighlightedSuffix

\* lines 138-142: the document is done, with or without a highlighted copy
Finished(f, ex, m, hl, flag) ==
    IF flag /\ m.has_matches
    THEN [exc |-> "none", kind |-> "done", rows |-> m.rows,
          store |-> <<[name |-> OutputName(f.name), data |-> hl.bytes]>>,
          diags |-> ex.diags \o m.diags \o hl.diags,
          leaked |-> ex.leaked + hl.leaked]
    ELSE [exc |-> "none", kind |-> "done", rows |-> m.rows, store |-> <<>>,
          diags |-> ex.diags \o m.diags, leaked |-> ex.leaked]

\* lines 121-142, m being the outcome of the loop over the pages
AfterMatching(f, pdf_bytes, ex, m, hl_fault, pattern, flag) ==
    IF m.exc # "none"
    THEN [exc |-> m.exc, kind |-> "error", rows |-> m.rows, store |-> <<>>,
          diags |-> ex.diags \o m.diags, leaked |-> ex.leaked]
    ELSE Finished(f, ex, m, highlight_matches_in_pdf(pdf_bytes, pattern, hl_fault), flag)

\* lines 112-142, ex being what extract_text_from_pdf returned
AfterExtraction(f, pdf_bytes, ex, hl_fault, pattern, flag) ==
    IF ex.page_texts = <<>>
    THEN [exc |-> "none", kind |-> "no_text", rows |-> <<>>, store |-> <<>>,
          diags |-> ex.diags \o <<Warning("No text content found")>>,
          leaked |-> ex.leaked]
    ELSE AfterMatching(f, pdf_bytes, ex,
                       MatchPages(ex.page_texts, pattern, SplitExt(f.name)[1], 1, FALSE),
                       hl_fault, pattern, flag)

\* lines 103-142, the body of the try; read_fault: uploaded_file.seek or
\* uploaded_file.read raises
TryBody(f, read_fault, hl_fault, pattern, flag) ==
    IF read_fault
    THEN [exc |-> "OSError", kind |-> "error", rows |-> <<>>, store |-> <<>>,
          diags |-> <<>>, leaked |-> 0]
    ELSE AfterExtraction(f, f.bytes, extract_text_from_pdf(f.bytes), hl_fault, pattern, flag)

\* line 144: `except Exception` catches every exception the body can raise
CaughtAtBoundary(exc) == exc \in {"OSError", "re.error"}

\* lines 144-146
ExceptClause(t) ==
    IF t.exc # "none" /\ CaughtAtBoundary(t.exc)
    THEN [t EXCEPT !.exc = "none", !.kind = "error",
                   !.diags = t.diags \o <<Error("Error processing")>>]
    ELSE t

\* lines 89-146, one pass of the loop body
Iteration(f, read_fault, hl_fault, pattern, flag) ==
    IF Validate(f) = "not_pdf"
    THEN [exc |-> "none", kind |-> "not_pdf", rows |-> <<>>, store |-> <<>>,
          diags |-> <<Warning("Skipping: Not a PDF file")>>, leaked |-> 0]
    ELSE IF Validate(f) = "too_large"
    THEN [exc |-> "none", kind |-> "too_large", rows |-> <<>>, store |-> <<>>,
          diags |-> <<Warning("Skipping: File too large (>200MB)")>>, leaked |-> 0]
    ELSE ExceptClause(TryBody(f, read_fault, hl_fault, pattern, flag))

\* highlighted_pdfs[key] = value on an insertion-ordered dict
DictSet(d, key, value) ==
    IF \E k \in 1..Len(d) : d[k].name = key
    THEN [k \in 1..Len(d) |->
             IF d[k].name = key THEN [name |-> key, data |-> value] ELSE d[k]]
    ELSE Append(d, [name |-> key, data |-> value])

\* Variant: the ZIP is built also from an empty dict
ZipBytes_Always(d) == <<d>>

\* lines 153-159: None, or the ZIP with one entry per key of the dict
ZipBytes(d) == IF d # <<>> THEN <<d>> ELSE <<>>

Header == <<"Index", "Document", "Page", "Match">>

\* Variant: the header is emitted also without rows
FormatTable_AlwaysHeader(rows) == <<Header>> \o rows

\* lines 161-166: the lines of the returned text
FormatTable(rows) == IF rows # <<>> THEN <<Header>> \o rows ELSE <<>>

---------------------------------------------------------------------------
(* The state machine *)

Init ==
    /\ regex_pattern \in Patterns
    /\ create_highlighted_pdfs \in BOOLEAN
    /\ uploaded_files = <<>>
    /\ results = <<>>
    /\ highlighted_pdfs = <<>>
    /\ diags = <<>>
    /\ read_failed = <<>>
    /\ open_handles = 0
    /\ row_owner = <<>>
    /\ stored = <<>>
    /\ pc = "loop"
    /\ ret_table = <<>>
    /\ ret_zip = <<>>

\* The effect of one pass of the loop body, `it`, on the state
Commit(it, f, read_fault, i) ==
    /\ uploaded_files' = Append(uploaded_files, f)
    /\ read_failed' = Append(read_failed, read_fault)
    /\ results' = results \o it.rows
    /\ row_owner' = row_owner \o [k \in 1..Len(it.rows) |-> i]
    /\ highlighted_pdfs' =
          IF it.store = <<>> THEN highlighted_pdfs
          ELSE DictSet(highlighted_pdfs, it.store[1].name, it.store[1].data)
    /\ stored' = stored \o
          [k \in 1..Len(it.store) |->
              [src |-> i, name |-> it.store[k].name, data |-> it.store[k].data]]
    /\ diags' = Append(diags, it.diags)
    /\ open_handles' = open_handles + it.leaked
    /\ pc' = IF it.exc = "none" THEN "loop" ELSE "raised"
    /\ UNCHANGED <<regex_pattern, create_highlighted_pdfs, ret_table, ret_zip>>

\* The loop has a further file, and the pass over it ends the way `kind` names
Takes(it, kind) ==
    /\ pc = "loop"
    /\ Len(uploaded_files) < MaxFiles
    /\ it.kind = kind

\* lines 92-94
SkipNotPdf ==
    \E f \in Files :
        /\ Takes(Iteration(f, FALSE, "none", regex_pattern, create_highlighted_pdfs),
                 "not_pdf")
        /\ Commit(Iteration(f, FALSE, "none", regex_pattern, create_highlighted_pdfs),
                  f, FALSE, Len(uploaded_files) + 1)

\* lines 97-100
SkipTooLarge ==
    \E f \in Files :
        /\ Takes(Iteration(f, FALSE, "none", regex_pattern, create_highlighted_pdfs),
                 "too_large")
        /\ Commit(Iteration(f, FALSE, "none", regex_pattern, create_highlighted_pdfs),
                  f, FALSE, Len(uploaded_files) + 1)

\* lines 144-146: the body of the try raised
ProcessingError ==
    \E f \in Files : \E rf \in BOOLEAN :
        /\ Takes(Iteration(f, rf, "none", regex_pattern, create_highlighted_pdfs),
                 "error")
        /\ Commit(Iteration(f, rf, "none", regex_pattern, create_highlighted_pdfs),
                  f, rf, Len(uploaded_files) + 1)

\* lines 112-115
SkipNoText ==
    \E f \in Files :
        /\ Takes(Iteration(f, FALSE, "none", regex_pattern, create_highlighted_pdfs),
                 "no_text")
        /\ Commit(Iteration(f, FALSE, "none", regex_pattern, create_highlighted_pdfs),
                  f, FALSE, Len(uploaded_files) + 1)

\* lines 117-142
ProcessDocument ==
    \E f \in Files : \E hf \in HighlightFaults :
        /\ Takes(Iteration(f, FALSE, hf, regex_pattern, create_highlighted_pdfs),
                 "done")
        /\ Commit(Iteration(f, FALSE, hf, regex_pattern, create_highlighted_pdfs),
                  f, FALSE, Len(uploaded_files) + 1)

\* lines 148-166: the batch had no further file
Finish ==
    /\ pc = "loop"
    /\ pc' = "done"
    /\ ret_zip' = ZipBytes(highlighted_pdfs)
    /\ ret_table' = FormatTable(results)
    /\ UNCHANGED <<regex_pattern, create_highlighted_pdfs, uploaded_files, results,
                   highlighted_pdfs, diags, read_failed, open_handles, row_owner,
                   stored>>

Next ==
    \/ SkipNotPdf
    \/ SkipTooLarge
    \/ ProcessingError
    \/ SkipNoText
    \/ ProcessDocument
    \/ Finish

Spec == Init /\ [][Next]_vars

---------------------------------------------------------------------------
(* What the claims speak of, stated on the inputs and the outputs *)

NumFiles == Len(uploaded_files)

\* The positions in results of the rows the j-th file contributed
RowIdx(j) == {r \in 1..Len(results) : row_owner[r] = j}

\* Those rows, in table order
OwnedRows(j) ==
    [k \in 1..Cardinality(RowIdx(j)) |->
        results[CHOOSE r \in RowIdx(j) : Cardinality({q \in RowIdx(j) : q <= r}) = k]]

HasDiag(j, d) == \E k \in 1..Len(diags[j]) : diags[j][k] = d

DiagCount(j, level) == Cardinality({k \in 1..Len(diags[j]) : diags[j][k].level = level})

\* The name ends in ".pdf", case ignored
NameIsPdf(name) ==
    /\ Len(name) >= 4
    /\ LowerChar(name[Len(name) - 3]) = "."
    /\ LowerChar(name[Len(name) - 2]) = "p"
    /\ LowerChar(name[Len(name) - 1]) = "d"
    /\ LowerChar(name[Len(name)]) = "f"

Oversized(f) == f.size > 200 * 1024 * 1024

ValidUpload(f) == NameIsPdf(f.name) /\ ~Oversized(f)

\* The orchestrator's own read of the j-th file raised
ReadFailed(j) == read_failed[j]

\* The bytes open and every page can be read
Parseable(f) ==
    /\ f.bytes.doc.parseable
    /\ \A k \in 1..Len(f.bytes.doc.pages) : f.bytes.doc.pages[k].ok

HasText(f) == \E k \in 1..Len(f.bytes.doc.pages) : f.bytes.doc.pages[k].text # <<>>

\* The j-th file reached the matching stage
Examined(j) ==
    /\ ValidUpload(uploaded_files[j])
    /\ ~ReadFailed(j)
    /\ Parseable(uploaded_files[j])
    /\ HasText(uploaded_files[j])

\* The matches of the pattern on one page, none when it does not compile
PageMatches(text) ==
    IF regex_pattern.compiles THEN Scan(regex_pattern, text, 1) ELSE <<>>

MatchCount(f) ==
    Sum([k \in 1..Len(f.bytes.doc.pages) |-> Len(PageMatches(f.bytes.doc.pages[k].text))])

\* The j-th file is a document with at least one match
Matched(j) == Examined(j) /\ MatchCount(uploaded_files[j]) > 0

MatchedFiles == {j \in 1..NumFiles : Matched(j)}

\* The name without its four-character extension
Stem(name) == SubSeq(name, 1, Len(name) - 4)

\* The text a match is shown as: the non-empty groups joined by one space
Shown(text, m) ==
    IF regex_pattern.groups /\ m.stop > m.start
    THEN <<text[m.start], " ", text[m.stop]>>
    ELSE SubSeq(text, m.start, m.stop)

\* Document, page and text of every match of a file: pages ascending, matches
\* of a page left to right
ExpectedOfFile(f) ==
    Concat([p \in 1..Len(f.bytes.doc.pages) |->
        [k \in 1..Len(PageMatches(f.bytes.doc.pages[p].text)) |->
            <<Stem(f.name), p,
              Shown(f.bytes.doc.pages[p].text, PageMatches(f.bytes.doc.pages[p].text)[k])>>]])

ExpectedRows ==
    Concat([j \in 1..NumFiles |->
        IF Examined(j) THEN ExpectedOfFile(uploaded_files[j]) ELSE <<>>])

\* Columns Document, Page, Match of the rows
DataColumns(rows) == [r \in 1..Len(rows) |-> <<rows[r][2], rows[r][3], rows[r][4]>>]

IsAbsent(zip) == zip = <<>>

ZipEntries(zip) == zip[1]

---------------------------------------------------------------------------
(* C1 *)

\* C1: for every document that contributes rows, the Index values of its
\* rows, in table order, are 1, 2, ..., k with k the number of matches of the
\* document over all its pages.
C1_IndexPerDocument ==
    \A j \in 1..NumFiles :
        RowIdx(j) # {} =>
            /\ \A k \in 1..Len(OwnedRows(j)) : OwnedRows(j)[k][1] = k
            /\ Len(OwnedRows(j)) = MatchCount(uploaded_files[j])

\* Two documents in a row, each with matches on two pages: the first ends at
\* index 3 on a later page, the second starts again at 1.
C1_Witness ==
    /\ NumFiles = 2
    /\ Len(results) = 6
    /\ results[3][1] = 3 /\ results[3][3] > results[1][3]
    /\ results[4][1] = 1 /\ row_owner[4] = 2
    /\ results[6][1] = 3

(* C2 *)

\* C2: an item whose name does not end in ".pdf" (case ignored) or whose
\* size exceeds 200 MiB is skipped with its warning and nothing else: no
\* row, no archive entry, no extraction; the loop goes on.
C2_InvalidSkipped ==
    \A j \in 1..NumFiles :
        (~NameIsPdf(uploaded_files[j].name) \/ Oversized(uploaded_files[j])) =>
            /\ RowIdx(j) = {}
            /\ \A k \in 1..Len(stored) : stored[k].src # j
            /\ Len(diags[j]) = 1
            /\ diags[j][1] \in {Warning("Skipping: Not a PDF file"),
                                Warning("Skipping: File too large (>200MB)")}
            /\ pc # "raised"
            /\ Len(diags) = NumFiles

\* An oversized PDF full of matches was skipped, and the file after it gave rows.
C2_Witness ==
    /\ NumFiles = 2
    /\ NameIsPdf(uploaded_files[1].name) /\ Oversized(uploaded_files[1])
    /\ MatchCount(uploaded_files[1]) > 0
    /\ RowIdx(1) = {}
    /\ RowIdx(2) # {}

(* C3 *)

\* C3: the returned archive is None exactly when highlighting is off or no
\* document matched, and it is never an empty ZIP.
C3_ArchiveAbsent ==
    pc = "done" =>
        /\ IsAbsent(ret_zip) <=> (~create_highlighted_pdfs \/ MatchedFiles = {})
        /\ ~IsAbsent(ret_zip) => ZipEntries(ret_zip) # <<>>

\* Highlighting off, matches found, no archive.
C3_Witness ==
    /\ pc = "done"
    /\ ~create_highlighted_pdfs
    /\ MatchedFiles # {}
    /\ IsAbsent(ret_zip)

(* C4 *)

\* C4: with highlighting on and a matching document, the archive has one
\* entry per matching document, also when two of them derive the same name.
C4_OneEntryPerMatchingDocument ==
    (pc = "done" /\ create_highlighted_pdfs /\ MatchedFiles # {}) =>
        /\ ~IsAbsent(ret_zip)
        /\ Len(ZipEntries(ret_zip)) = Cardinality(MatchedFiles)

(* C5 *)

\* C5: a matching document whose highlighting failed has, in the returned
\* archive, the entry {document_name}_highlighted.pdf holding its original
\* bytes, and its rows are in the table.
C5_FallbackEntry ==
    pc = "done" =>
        \A j \in 1..NumFiles :
            HasDiag(j, HighlightError) =>
                /\ RowIdx(j) # {}
                /\ ~IsAbsent(ret_zip)
                /\ \E k \in 1..Len(ZipEntries(ret_zip)) :
                      /\ ZipEntries(ret_zip)[k].name
                            = Stem(uploaded_files[j].name) \o HighlightedSuffix
                      /\ ZipEntries(ret_zip)[k].data = uploaded_files[j].bytes

\* An iteration whose highlighting failed
HighlightFailedStep ==
    /\ Len(diags') = Len(diags) + 1
    /\ \E k \in 1..Len(diags'[Len(diags')]) : diags'[Len(diags')][k] = HighlightError

\* What remains of C5 when names collide: the iteration whose highlighting
\* failed does not raise, adds the document's rows, and leaves the
\* document's original bytes under its output name.
C5_FallbackStored ==
    [][HighlightFailedStep =>
          /\ pc' = "loop"
          /\ Len(results') > Len(results)
          /\ \E k \in 1..Len(highlighted_pdfs') :
                /\ highlighted_pdfs'[k].name
                      = Stem(uploaded_files'[Len(uploaded_files')].name) \o HighlightedSuffix
                /\ highlighted_pdfs'[k].data
                      = uploaded_files'[Len(uploaded_files')].bytes]_vars

(* C6 *)

\* C6: with a pattern that does not compile the call does not raise, every
\* match attempt (one per page with text of every examined document)
\* reports the error, no row and no highlighted copy is produced, and the
\* call returns the empty table and no archive.
C6_BadPattern ==
    ~regex_pattern.compiles =>
        /\ pc # "raised"
        /\ results = <<>>
        /\ highlighted_pdfs = <<>>
        /\ stored = <<>>
        /\ \A j \in 1..NumFiles :
              /\ ~HasDiag(j, HighlightError)
              /\ Examined(j) =>
                    /\ Len(diags[j]) = Len(PageTextPairs(uploaded_files[j].bytes.doc))
                    /\ \A k \in 1..Len(diags[j]) : diags[j][k] = RegexError
        /\ pc = "done" => (ret_table = <<>> /\ IsAbsent(ret_zip))

\* Highlighting on, bad pattern, a document with two pages of text examined,
\* and the call has returned.
C6_Witness ==
    /\ ~regex_pattern.compiles
    /\ create_highlighted_pdfs
    /\ pc = "done"
    /\ \E j \in 1..NumFiles : Examined(j) /\ Len(diags[j]) = 2

(* C7 *)

\* An iteration in which something failed: it reported an error
FailureStep ==
    /\ Len(diags') = Len(diags) + 1
    /\ \E k \in 1..Len(diags'[Len(diags')]) : diags'[Len(diags')][k].level = "error"

\* C7: an iteration in which something failed does not raise, leaves the
\* rows and the archive entries of the earlier documents as they were, and
\* the loop goes on.
C7_FailureContained ==
    [][FailureStep =>
          /\ pc' = "loop"
          /\ Len(results') >= Len(results)
          /\ SubSeq(results', 1, Len(results)) = results
          /\ Len(highlighted_pdfs') >= Len(highlighted_pdfs)
          /\ SubSeq(highlighted_pdfs', 1, Len(highlighted_pdfs)) = highlighted_pdfs]_vars

\* What remains of C7 when names collide: a failing iteration does not
\* raise, keeps the rows, and changes no archive entry but the one under
\* the failing document's own output name.
C7_FailureKeepsOthers ==
    [][FailureStep =>
          /\ pc' = "loop"
          /\ Len(results') >= Len(results)
          /\ SubSeq(results', 1, Len(results)) = results
          /\ Len(highlighted_pdfs') >= Len(highlighted_pdfs)
          /\ \A k \in 1..Len(highlighted_pdfs) :
                \/ highlighted_pdfs'[k] = highlighted_pdfs[k]
                \/ /\ highlighted_pdfs'[k].name = highlighted_pdfs[k].name
                   /\ highlighted_pdfs[k].name
                         = Stem(uploaded_files'[Len(uploaded_files')].name)
                           \o HighlightedSuffix]_vars

(* C8 *)

\* C8: the data rows are one row per match of the examined documents, in
\* upload, page and scan order; the header is there exactly when a row is.
C8_RowsInEncounterOrder ==
    /\ DataColumns(results) = ExpectedRows
    /\ pc = "done" =>
          /\ (ret_table = <<>>) <=> (results = <<>>)
          /\ results # <<>> =>
                /\ Head(ret_table) = Header
                /\ Tail(ret_table) = results

\* Returned: a table of header and six rows from two documents.
C8_Witness ==
    /\ pc = "done"
    /\ Len(ret_table) = 7
    /\ Cardinality(MatchedFiles) = 2

(* C9 *)

\* C9: every document handle the Extractor or the Highlighter opened is
\* closed when the function returns, also when it returns its fallback.
C9_HandlesClosed == open_handles = 0

(* C10 *)

NoUsableText(j) ==
    /\ ValidUpload(uploaded_files[j])
    /\ ~ReadFailed(j)
    /\ ~(Parseable(uploaded_files[j]) /\ HasText(uploaded_files[j]))

Excluded(j) == RowIdx(j) = {} /\ \A k \in 1..Len(stored) : stored[k].src # j

\* C10 as stated: an unparsable or textless document is excluded and gets
\* exactly one diagnostic, a warning.
C10_OneDiagnostic ==
    \A j \in 1..NumFiles :
        NoUsableText(j) =>
            /\ Excluded(j)
            /\ Len(diags[j]) = 1
            /\ diags[j][1].level = "warning"

\* C10 amended: such a document is excluded and gets exactly one warning;
\* when the Extractor raised, the Extractor's one error precedes it, and
\* there is no other diagnostic.
C10_OneWarning ==
    \A j \in 1..NumFiles :
        NoUsableText(j) =>
            /\ Excluded(j)
            /\ pc # "raised"
            /\ diags[j] = IF Parseable(uploaded_files[j])
                          THEN <<Warning("No text content found")>>
                          ELSE <<ExtractError, Warning("No text content found")>>

\* An unparsable document was passed over with an error and a warning, and
\* the next document gave rows.
C10_Witness ==
    /\ NumFiles = 2
    /\ NoUsableText(1)
    /\ ~uploaded_files[1].bytes.doc.parseable
    /\ Len(diags[1]) = 2
    /\ RowIdx(2) # {}

============================================================================
